---- MODULE Spec2Model ----
(***************************************************************************)
(* The coworker registry of opencode-coworker.                             *)
(*                                                                         *)
(* The repository holds the plugin twice: src/index.ts keeps the registry  *)
(* in a JSON file (coworkers.json) and registers create/list/tell;         *)
(* the program text in src/README.md keeps it in an SQLite table           *)
(* (coworkers.db) and also registers remove.  Both are modelled side by    *)
(* side: every variable below is indexed by the variant ("file", "table")  *)
(* and every step is taken by both variants on the same inputs (the same   *)
(* tool call, the same answer of the session service, the same clock), so  *)
(* that the two can be compared state by state.                            *)
(*                                                                         *)
(* Strings that the code takes apart or puts together (names, prompt       *)
(* texts, titles) are sequences of string chunks; a name is a sequence of  *)
(* one-character chunks, so that toLowerCase acts character by character.  *)
(* Session identifiers are numbered (session n stands for the n-th         *)
(* identifier the session service hands out), ISO timestamps are the       *)
(* reading of a clock that never runs backwards.                           *)
(***************************************************************************)
EXTENDS Integers, Sequences, FiniteSets, TLC

(***************************************************************************)
(* Bound of the model.                                                     *)
(***************************************************************************)
MaxOps == 3     \* tool invocations and process restarts in one behaviour

(***************************************************************************)
(* Inputs.                                                                 *)
(***************************************************************************)
Variants == {"file", "table"}

\* The host sessions that invoke the tools; a tool call of session p runs
\* with toolCtx.sessionID = p.  Each has at most one call in flight.
Procs == {"ses_a", "ses_b"}

Undefined == "<undefined>"     \* the JavaScript value undefined
Null == "<null>"               \* the SQL value NULL

Bob == <<"B", "o", "b">>
bob == <<"b", "o", "b">>
Amy == <<"A", "m", "y">>
\* A name that an empty object has a property for (Object.prototype.constructor).
constructor == <<"c", "o", "n", "s", "t", "r", "u", "c", "t", "o", "r">>
NameInputs == {Bob, bob, Amy, constructor}
PromptInputs == {<<"Investigate X">>}
\* The arguments of create_coworker: name, agent_type (optional), prompt.
CreateInputs ==
    {<<Bob, Undefined, <<"Investigate X">>>>,
     <<bob, "researcher", <<"Investigate X">>>>,
     <<Amy, "researcher", <<"Investigate X">>>>,
     <<constructor, "researcher", <<"Investigate X">>>>}
MessageInputs == {<<"wake up">>}

(***************************************************************************)
(* String.prototype.toLowerCase, character by character.                   *)
(***************************************************************************)
lowerChar(c) ==
    CASE c = "A" -> "a"
      [] c = "B" -> "b"
      [] c = "M" -> "m"
      [] c = "O" -> "o"
      [] c = "Y" -> "y"
      [] OTHER -> c

RECURSIVE toLowerCase(_)
toLowerCase(s) ==
    IF s = <<>> THEN <<>>
    ELSE <<lowerChar(Head(s))>> \o toLowerCase(Tail(s))

(***************************************************************************)
(* A JavaScript object with string keys (CoworkerStorage): its entries in  *)
(* insertion order, which is the order of Object.entries.                  *)
(***************************************************************************)
\* The object is made by an object literal or by JSON.parse, so a property
\* that it does not have itself is looked up in Object.prototype.  Of the
\* properties of Object.prototype these have names without capitals, the
\* only ones a lower-cased name can hit.
PrototypeKeys ==
    {<<"c", "o", "n", "s", "t", "r", "u", "c", "t", "o", "r">>,
     <<"_", "_", "p", "r", "o", "t", "o", "_", "_">>}

\* undefined, where the model has a number.
UndefinedNum == -1

\* What reading sessionId, agentType, createdAt and parentId of an
\* inherited value (the function Object, the object Object.prototype) gives.
Inherited == [sessionId |-> UndefinedNum, agentType |-> Undefined,
              createdAt |-> UndefinedNum, parentId |-> Undefined]

\* Own property: what Object.entries and JSON.stringify see.
HasOwn(obj, k) == \E i \in 1..Len(obj) : obj[i].k = k

\* if (obj[k]): the own property (a record, truthy) or an inherited one.
HasKey(obj, k) == HasOwn(obj, k) \/ k \in PrototypeKeys

\* obj[k], where HasKey(obj, k).
Get(obj, k) ==
    IF ~HasOwn(obj, k) /\ k \in PrototypeKeys THEN Inherited
    ELSE obj[CHOOSE i \in 1..Len(obj) : obj[i].k = k].v

RECURSIVE ReplaceValue(_, _, _)
ReplaceValue(obj, k, v) ==
    IF obj = <<>> THEN <<>>
    ELSE <<IF Head(obj).k = k THEN [k |-> k, v |-> v] ELSE Head(obj)>>
         \o ReplaceValue(Tail(obj), k, v)

\* obj[k] = v: an existing key keeps its place, a new key goes last.
Put(obj, k, v) ==
    IF HasOwn(obj, k) THEN ReplaceValue(obj, k, v)
    ELSE Append(obj, [k |-> k, v |-> v])

Keys(obj) == {obj[i].k : i \in 1..Len(obj)}

(***************************************************************************)
(* interface Coworker.  parentId is Undefined when the property is absent. *)
(***************************************************************************)
Coworker(sessionId, agentType, createdAt, parentId) ==
    [sessionId |-> sessionId, agentType |-> agentType,
     createdAt |-> createdAt, parentId |-> parentId]

(***************************************************************************)
(* File-backed storage (src/index.ts).  The file is missing, holds text    *)
(* that JSON.parse rejects, or holds a JSON document: a sequence of        *)
(* members, each a key and a JSON object (a function from member names).   *)
(***************************************************************************)
NoFile == [status |-> "missing", doc |-> <<>>]

\* JSON.stringify of one Coworker: a property whose value is undefined is
\* left out of the document.
JsonOfCoworker(c) ==
    [f \in {"sessionId", "agentType", "createdAt"}
           \cup (IF c.parentId = Undefined THEN {} ELSE {"parentId"}) |-> c[f]]

\* The Coworker that JSON.parse gives back: reading a property that the
\* document lacks yields undefined.
CoworkerOfJson(o) ==
    Coworker(o.sessionId, o.agentType, o.createdAt,
             IF "parentId" \in DOMAIN o THEN o.parentId ELSE Undefined)

RECURSIVE JsonStringify(_)
JsonStringify(obj) ==
    IF obj = <<>> THEN <<>>
    ELSE <<[k |-> Head(obj).k, v |-> JsonOfCoworker(Head(obj).v)]>>
         \o JsonStringify(Tail(obj))

\* The loop of loadCoworkers: normalized[name.toLowerCase()] = coworker,
\* over the members in document order.
RECURSIVE NormalizeEntries(_, _)
NormalizeEntries(doc, normalized) ==
    IF doc = <<>> THEN normalized
    ELSE NormalizeEntries(Tail(doc),
             Put(normalized, toLowerCase(Head(doc).k), CoworkerOfJson(Head(doc).v)))

loadCoworkersFile(file) ==
    IF file.status = "ok" THEN NormalizeEntries(file.doc, <<>>) ELSE <<>>

saveCoworkersFile(file, coworkers) ==
    [status |-> "ok", doc |-> JsonStringify(coworkers)]

(***************************************************************************)
(* Table-backed storage (the program in src/README.md).  The database is   *)
(* missing until getDb first opens it and creates the table; the rows of   *)
(* table coworkers are kept in rowid order, the order of SELECT *.         *)
(***************************************************************************)
NoDb == [status |-> "missing", rows |-> <<>>]

\* getDb: opens the database and runs CREATE TABLE IF NOT EXISTS.
getDb(db) == IF db.status = "missing" THEN [status |-> "ok", rows |-> <<>>] ELSE db

\* The row that saveCoworkers binds for one entry: coworker.parentId || null.
RowOfCoworker(name, c) ==
    [name |-> toLowerCase(name), session_id |-> c.sessionId,
     agent_type |-> c.agentType, created_at |-> c.createdAt,
     parent_id |-> IF c.parentId \in {Undefined, ""} THEN Null ELSE c.parentId]

\* The Coworker that loadCoworkers builds from a row: row.parent_id || undefined.
CoworkerOfRow(row) ==
    Coworker(row.session_id, row.agent_type, row.created_at,
             IF row.parent_id \in {Null, ""} THEN Undefined ELSE row.parent_id)

\* DELETE FROM coworkers WHERE name = ?  (name is compared byte for byte)
RECURSIVE DeleteRows(_, _)
DeleteRows(rows, name) ==
    IF rows = <<>> THEN <<>>
    ELSE (IF Head(rows).name = name THEN <<>> ELSE <<Head(rows)>>)
         \o DeleteRows(Tail(rows), name)

\* INSERT OR REPLACE: a row with the same primary key is deleted and the
\* new row is inserted with a fresh rowid, that is, last.
InsertOrReplace(rows, row) == Append(DeleteRows(rows, row.name), row)

RECURSIVE NormalizeRows(_, _)
NormalizeRows(rows, normalized) ==
    IF rows = <<>> THEN normalized
    ELSE NormalizeRows(Tail(rows),
             Put(normalized, toLowerCase(Head(rows).name), CoworkerOfRow(Head(rows))))

loadCoworkersTable(db) == NormalizeRows(getDb(db).rows, <<>>)

\* The loop of saveCoworkers: one INSERT OR REPLACE per entry of the object.
RECURSIVE UpsertAll(_, _)
UpsertAll(rows, coworkers) ==
    IF coworkers = <<>> THEN rows
    ELSE UpsertAll(InsertOrReplace(rows, RowOfCoworker(Head(coworkers).k, Head(coworkers).v)),
                   Tail(coworkers))

saveCoworkersTable(db, coworkers) ==
    [status |-> "ok", rows |-> UpsertAll(getDb(db).rows, coworkers)]

\* database.run("DELETE FROM coworkers WHERE name = ?", [name])
deleteCoworker(db, name) ==
    [status |-> "ok", rows |-> DeleteRows(getDb(db).rows, name)]

(***************************************************************************)
(* The storage layer of either variant.                                    *)
(***************************************************************************)
loadCoworkers(v, store) ==
    IF v = "file" THEN loadCoworkersFile(store) ELSE loadCoworkersTable(store)

\* What a load leaves behind in the backing store: the table variant
\* creates the database on first use, the file variant only reads.
storeAfterLoad(v, store) == IF v = "file" THEN store ELSE getDb(store)

saveCoworkers(v, store, coworkers) ==
    IF v = "file" THEN saveCoworkersFile(store, coworkers)
    ELSE saveCoworkersTable(store, coworkers)

\* Whether a load of the store rejects.  The file variant reads inside
\* try/catch and falls back to {}; the table variant has no handler, and
\* a file that is not a database makes the first statement on it throw.
loadThrows(v, store) == v = "table" /\ store.status = "corrupt"

(***************************************************************************)
(* What a backing store can hold when the plugin first starts: nothing,    *)
(* bytes that are not a document / a database, or a record that an         *)
(* earlier write path left under a key that is not lower case.             *)
(***************************************************************************)
PriorContents == {"missing", "corrupt", "mixedCase"}

PriorCoworker == Coworker(0, "code", 0, "ses_a")

\* The document member and the table row of that record, keyed "Bob".
PriorMember == [k |-> Bob, v |-> JsonOfCoworker(PriorCoworker)]

PriorRow == [RowOfCoworker(Bob, PriorCoworker) EXCEPT !.name = Bob]

PriorStorage(v, c) ==
    CASE c = "missing" -> IF v = "file" THEN NoFile ELSE NoDb
      [] c = "corrupt" -> IF v = "file" THEN [status |-> "corrupt", doc |-> <<>>]
                          ELSE [status |-> "corrupt", rows |-> <<>>]
      [] OTHER -> IF v = "file" THEN [status |-> "ok", doc |-> <<PriorMember>>]
                  ELSE [status |-> "ok", rows |-> <<PriorRow>>]

(***************************************************************************)
(* The in-memory maps activeSessions and sessionParents (Map<string,       *)
(* string>), as functions on the set of their keys.                        *)
(***************************************************************************)
EmptyMap == <<>>

MapHas(m, k) == k \in DOMAIN m

MapSet(m, k, val) == [x \in DOMAIN m \cup {k} |-> IF x = k THEN val ELSE m[x]]

MapDelete(m, k) == [x \in DOMAIN m \ {k} |-> m[x]]

(***************************************************************************)
(* State.                                                                  *)
(*                                                                         *)
(* plugin[v] is the plugin of variant v with its backing store:            *)
(*   storage         the file coworkers.json / the database coworkers.db   *)
(*   activeSessions  sessionId -> name        (in memory)                  *)
(*   sessionParents  sessionId -> parentId    (in memory)                  *)
(*   pc[p]           where the tool call of session p stands: "idle", or   *)
(*                   the await it is suspended at                          *)
(*   coworkers[p]    its local const coworkers (the loaded snapshot)       *)
(*   sessionId[p]    its local const sessionId                             *)
(*   calls[p]        the requests it has made to the session service,  *)
(*                   in order, each with its outcome                       *)
(* and four history fields that the code does not hold:                   *)
(*   last            the call that returned in the step that led to    *)
(*                   this state, if one did: its arguments, what it        *)
(*                   returned and the requests it made                     *)
(*   created         name -> the creates of that name (the name as     *)
(*                   typed, the sessionId) that returned success since     *)
(*                   the last successful remove of the name                *)
(*   removed         name -> the sessionIds of the records that a          *)
(*                   successful remove of the name found                   *)
(*   overlapped      whether a call ever started while another one was     *)
(*                   in flight                                             *)
(* args[p] are the arguments of session p's call in flight.  nextSession   *)
(* is the next identifier of the session service, now the clock.  ops      *)
(* counts the calls and the restarts; bootSession is nextSession as of     *)
(* the last start of the process.                                          *)
(***************************************************************************)
VARIABLES plugin, args, nextSession, now, ops, bootSession

vars == <<plugin, args, nextSession, now, ops, bootSession>>

Result(kind, name, agentType, sessionId, entries) ==
    [kind |-> kind, name |-> name, agentType |-> agentType,
     sessionId |-> sessionId, entries |-> entries]

NoResult == Result("none", <<>>, "", 0, <<>>)

\* A promise that rejects: the call ends with an exception, not with text.
Exception == Result("exception", <<>>, "", 0, <<>>)

Call(op, id, parentID, text, agent, outcome) ==
    [op |-> op, id |-> id, parentID |-> parentID, text |-> text,
     agent |-> agent, outcome |-> outcome]

Args(p, op, name, agent, text) ==
    [proc |-> p, op |-> op, name |-> name, agent_type |-> agent, text |-> text]

NoArgs == Args("", "none", <<>>, Undefined, <<>>)

NoLast == [args |-> NoArgs, result |-> NoResult, calls |-> <<>>]

InitPlugin(v) ==
    [storage |-> IF v = "file" THEN NoFile ELSE NoDb,
     activeSessions |-> EmptyMap,
     sessionParents |-> EmptyMap,
     pc |-> [p \in Procs |-> "idle"],
     coworkers |-> [p \in Procs |-> <<>>],
     sessionId |-> [p \in Procs |-> 0],
     calls |-> [p \in Procs |-> <<>>],
     last |-> NoLast,
     created |-> EmptyMap,
     removed |-> EmptyMap,
     overlapped |-> FALSE]

Init ==
    /\ plugin = [v \in Variants |-> InitPlugin(v)]
    /\ args = [p \in Procs |-> NoArgs]
    /\ nextSession = 1
    /\ now = 1
    /\ ops = 0
    /\ bootSession = 1

\* The plugin starts on a backing store that is already there.
InitPrior ==
    /\ \E c \in PriorContents :
          plugin = [v \in Variants |->
                       [InitPlugin(v) EXCEPT !.storage = PriorStorage(v, c)]]
    /\ args = [p \in Procs |-> NoArgs]
    /\ nextSession = 1
    /\ now = 1
    /\ ops = 0
    /\ bootSession = 1

(***************************************************************************)
(* The steps of one plugin, as functions of its state s.  A tool's execute *)
(* runs from one await to the next without interruption; each function     *)
(* below is one such stretch.                                              *)
(***************************************************************************)
InFlight(s) == \E q \in Procs : s.pc[q] # "idle"

\* The host calls a tool of session p.
begin(s, p) == [s EXCEPT !.overlapped = @ \/ InFlight(s), !.last = NoLast]

\* A call in flight goes on.
resume(s) == [s EXCEPT !.last = NoLast]

\* The call of session p, made with arguments a, returns res.
return(s, p, a, res) ==
    [s EXCEPT !.pc[p] = "idle", !.coworkers[p] = <<>>, !.sessionId[p] = 0,
              !.calls[p] = <<>>,
              !.last = [args |-> a, result |-> res, calls |-> s.calls[p]]]

\* args.agent_type ?? "code"  /  args.agent_type ?? "general"
agentOf(v, a) ==
    IF a.agent_type = Undefined THEN (IF v = "file" THEN "code" ELSE "general")
    ELSE a.agent_type

\* `${args.name} (${args.agent_type ?? ...})`
titleOf(v, a) == a.name \o <<" (", agentOf(v, a), ")">>

\* The text of the initial prompt.
initialPrompt(v, a) ==
    IF v = "file" THEN a.text
    ELSE <<"IMPORTANT: your name is '">> \o a.name \o <<"'. ">> \o a.text

alreadyExists(name, coworker) ==
    Result("AlreadyExists", name, "", coworker.sessionId, <<>>)

notFound(name) == Result("NotFound", name, "", 0, <<>>)

\* A variant of createStart without the check for an existing record.
createStart_noCheck(v, s0, p, a) ==
    LET s == begin(s0, p)
    IN  [s EXCEPT !.storage = storeAfterLoad(v, s.storage),
                  !.coworkers[p] = loadCoworkers(v, s.storage),
                  !.pc[p] = "session"]

\* create_coworker: load, normalize, check.
createStart(v, s0, p, a) ==
    LET s == begin(s0, p)
        coworkers == loadCoworkers(v, s.storage)
        store == storeAfterLoad(v, s.storage)
        name == toLowerCase(a.name)
    IN  IF loadThrows(v, s.storage) THEN return(s, p, a, Exception)
        ELSE IF HasKey(coworkers, name)
        THEN return([s EXCEPT !.storage = store], p, a,
                    alreadyExists(name, Get(coworkers, name)))
        ELSE [s EXCEPT !.storage = store, !.coworkers[p] = coworkers,
                       !.pc[p] = "session"]

\* A variant of createSession that goes on without looking at data.id.
createSession_noIdCheck(v, s, p, a, resp, id) ==
    LET call == Call("session.create", IF resp = "id" THEN id ELSE 0,
                     IF v = "file" THEN p ELSE Undefined,
                     titleOf(v, a), Undefined, resp)
        t == [resume(s) EXCEPT !.calls[p] = Append(@, call)]
    IN  CASE resp = "id" -> [t EXCEPT !.sessionId[p] = id, !.pc[p] = "prompt"]
          [] resp = "none" -> [t EXCEPT !.sessionId[p] = 0, !.pc[p] = "prompt"]
          [] OTHER -> return(t, p, a, Exception)

\* create_coworker: client.session.create answers.  resp is "id" (a new
\* session, identifier id), "none" (no data.id) or "throw" (it rejects).
createSession(v, s, p, a, resp, id) ==
    LET call == Call("session.create", IF resp = "id" THEN id ELSE 0,
                     IF v = "file" THEN p ELSE Undefined,
                     titleOf(v, a), Undefined, resp)
        t == [resume(s) EXCEPT !.calls[p] = Append(@, call)]
    IN  CASE resp = "id" -> [t EXCEPT !.sessionId[p] = id, !.pc[p] = "prompt"]
          [] resp = "none" -> return(t, p, a, Result("UpstreamFailure", <<>>, "", 0, <<>>))
          [] OTHER -> return(t, p, a, Exception)

\* create_coworker: client.session.prompt answers.  resp is "ok" (the
\* promise resolves; the code does not look at the result, so an error
\* result is this case too) or "throw" (the promise rejects).
createPrompt(v, s, p, a, resp) ==
    LET call == Call("session.prompt", s.sessionId[p], Undefined,
                     initialPrompt(v, a), agentOf(v, a), resp)
        t == [resume(s) EXCEPT !.calls[p] = Append(@, call)]
    IN  IF resp = "throw" THEN return(t, p, a, Exception)
        ELSE [t EXCEPT !.pc[p] = "save"]

\* A variant of createSave that returns before the store is written.
createSave_notWritten(v, s, p, a, time) ==
    LET name == toLowerCase(a.name)
        coworkers == Put(s.coworkers[p], name,
                         Coworker(s.sessionId[p], agentOf(v, a), time, p))
    IN  [resume(s) EXCEPT !.coworkers[p] = coworkers, !.pc[p] = "finish"]

\* A variant of createSave that leaves a record found in the store alone
\* (insert-if-absent).
createSave_ifAbsent(v, s, p, a, time) ==
    LET name == toLowerCase(a.name)
        coworkers == Put(s.coworkers[p], name,
                         Coworker(s.sessionId[p], agentOf(v, a), time, p))
    IN  [resume(s) EXCEPT !.coworkers[p] = coworkers,
                  !.storage = IF HasKey(loadCoworkers(v, @), name) THEN @
                              ELSE saveCoworkers(v, @, coworkers),
                  !.pc[p] = "finish"]

\* create_coworker: the record is put into the snapshot and saved.
createSave(v, s, p, a, time) ==
    LET name == toLowerCase(a.name)
        coworkers == Put(s.coworkers[p], name,
                         Coworker(s.sessionId[p], agentOf(v, a), time, p))
    IN  [resume(s) EXCEPT !.coworkers[p] = coworkers,
                  !.storage = saveCoworkers(v, s.storage, coworkers),
                  !.pc[p] = "finish"]

\* A variant of createFinish that registers the session under the name as typed.
createFinish_asTyped(v, s, p, a) ==
    LET name == toLowerCase(a.name)
        sessionId == s.sessionId[p]
        t == [resume(s) EXCEPT !.activeSessions = MapSet(@, sessionId, a.name),
                       !.sessionParents = MapSet(@, sessionId, p),
                       !.created = MapSet(@, name,
                                  (IF MapHas(@, name) THEN @[name] ELSE {})
                                  \cup {[name |-> a.name, sessionId |-> sessionId]})]
    IN  return(t, p, a, Result("Created", name, agentOf(v, a), sessionId, <<>>))

\* create_coworker: the session is registered and success is returned.
createFinish(v, s, p, a) ==
    LET name == toLowerCase(a.name)
        sessionId == s.sessionId[p]
        t == [resume(s) EXCEPT !.activeSessions = MapSet(@, sessionId, name),
                       !.sessionParents = MapSet(@, sessionId, p),
                       !.created = MapSet(@, name,
                                  (IF MapHas(@, name) THEN @[name] ELSE {})
                                  \cup {[name |-> a.name, sessionId |-> sessionId]})]
    IN  return(t, p, a, Result("Created", name, agentOf(v, a), sessionId, <<>>))

\* entries.map(...): one line per entry, in the order of the object.
RECURSIVE listEntries(_, _)
listEntries(coworkers, activeSessions) ==
    IF coworkers = <<>> THEN <<>>
    ELSE <<[name |-> Head(coworkers).k,
            agentType |-> Head(coworkers).v.agentType,
            sessionId |-> Head(coworkers).v.sessionId,
            status |-> IF MapHas(activeSessions, Head(coworkers).v.sessionId)
                       THEN "active" ELSE "idle"]>>
         \o listEntries(Tail(coworkers), activeSessions)

listText(coworkers, activeSessions) ==
    IF Len(coworkers) = 0 THEN Result("NoCoworkers", <<>>, "", 0, <<>>)
    ELSE Result("List", <<>>, "", 0, listEntries(coworkers, activeSessions))

\* The /coworkers command: the same lines with a bullet each, under a
\* heading, returned as { text }.
commandText(coworkers, activeSessions) ==
    IF Len(coworkers) = 0 THEN Result("CommandNoCoworkers", <<>>, "", 0, <<>>)
    ELSE Result("CommandList", <<>>, "", 0, listEntries(coworkers, activeSessions))

\* list_coworkers and the /coworkers command: const coworkers = await
\* loadCoworkers(client).  The store is read here; the call goes on in a
\* later turn of the event loop.
listStart(v, s0, p, a) ==
    LET s == begin(s0, p)
    IN  IF loadThrows(v, s.storage) THEN return(s, p, a, Exception)
        ELSE [s EXCEPT !.storage = storeAfterLoad(v, s.storage),
                       !.coworkers[p] = loadCoworkers(v, s.storage),
                       !.pc[p] = a.op]

\* list_coworkers, resumed: the entries of the loaded snapshot, each with
\* what activeSessions says now.
listFinish(v, s, p, a) ==
    return(resume(s), p, a, listText(s.coworkers[p], s.activeSessions))

\* The /coworkers command, resumed.
commandFinish(v, s, p, a) ==
    return(resume(s), p, a, commandText(s.coworkers[p], s.activeSessions))

\* tell_coworker: load, normalize, check.
tellStart(v, s0, p, a) ==
    LET s == begin(s0, p)
        coworkers == loadCoworkers(v, s.storage)
        store == storeAfterLoad(v, s.storage)
        name == toLowerCase(a.name)
    IN  IF loadThrows(v, s.storage) THEN return(s, p, a, Exception)
        ELSE IF ~HasKey(coworkers, name)
        THEN return([s EXCEPT !.storage = store], p, a, notFound(name))
        ELSE [s EXCEPT !.storage = store, !.coworkers[p] = coworkers,
                       !.pc[p] = "tell"]

\* A variant of tellPrompt that puts the identity preamble before the message.
tellPrompt_withPreamble(v, s, p, a, resp) ==
    LET name == toLowerCase(a.name)
        coworker == Get(s.coworkers[p], name)
        call == Call("session.prompt", coworker.sessionId, Undefined,
                     <<"IMPORTANT: your name is '">> \o a.name \o <<"'. ">> \o a.text,
                     Undefined, resp)
        t == [resume(s) EXCEPT !.calls[p] = Append(@, call)]
    IN  IF resp = "throw" THEN return(t, p, a, Exception)
        ELSE return(t, p, a, Result("Queued", name, coworker.agentType, 0, <<>>))

\* tell_coworker: client.session.prompt answers.
tellPrompt(v, s, p, a, resp) ==
    LET name == toLowerCase(a.name)
        coworker == Get(s.coworkers[p], name)
        call == Call("session.prompt", coworker.sessionId, Undefined,
                     a.text, Undefined, resp)
        t == [resume(s) EXCEPT !.calls[p] = Append(@, call)]
    IN  IF resp = "throw" THEN return(t, p, a, Exception)
        ELSE return(t, p, a, Result("Queued", name, coworker.agentType, 0, <<>>))

\* remove_coworker (table variant only): load, normalize, check.
removeStart(v, s0, p, a) ==
    LET s == begin(s0, p)
        coworkers == loadCoworkers(v, s.storage)
        store == storeAfterLoad(v, s.storage)
        name == toLowerCase(a.name)
    IN  IF loadThrows(v, s.storage) THEN return(s, p, a, Exception)
        ELSE IF ~HasKey(coworkers, name)
        THEN return([s EXCEPT !.storage = store], p, a, notFound(name))
        ELSE [s EXCEPT !.storage = store, !.coworkers[p] = coworkers,
                       !.pc[p] = "delete"]

\* A variant of removeDelete that forgets the session but keeps the row.
removeDelete_keepsRow(v, s, p, a) ==
    LET name == toLowerCase(a.name)
        coworker == Get(s.coworkers[p], name)
        t == [resume(s) EXCEPT
                       !.activeSessions = MapDelete(@, coworker.sessionId),
                       !.sessionParents = MapDelete(@, coworker.sessionId),
                       !.created = MapDelete(@, name),
                       !.removed = MapSet(@, name,
                                  (IF MapHas(@, name) THEN @[name] ELSE {})
                                  \cup {coworker.sessionId})]
    IN  return(t, p, a, Result("Removed", name, coworker.agentType, 0, <<>>))

\* A variant of removeDelete that deletes the row and leaves the maps alone.
removeDelete_keepsMaps(v, s, p, a) ==
    LET name == toLowerCase(a.name)
        coworker == Get(s.coworkers[p], name)
        t == [resume(s) EXCEPT !.storage = deleteCoworker(@, name),
                       !.created = MapDelete(@, name),
                       !.removed = MapSet(@, name,
                                  (IF MapHas(@, name) THEN @[name] ELSE {})
                                  \cup {coworker.sessionId})]
    IN  return(t, p, a, Result("Removed", name, coworker.agentType, 0, <<>>))

\* remove_coworker: after await getDb, the row and the map entries go.
removeDelete(v, s, p, a) ==
    LET name == toLowerCase(a.name)
        coworker == Get(s.coworkers[p], name)
        t == [resume(s) EXCEPT !.storage = deleteCoworker(@, name),
                       !.activeSessions = MapDelete(@, coworker.sessionId),
                       !.sessionParents = MapDelete(@, coworker.sessionId),
                       !.created = MapDelete(@, name),
                       !.removed = MapSet(@, name,
                                  (IF MapHas(@, name) THEN @[name] ELSE {})
                                  \cup {coworker.sessionId})]
    IN  return(t, p, a, Result("Removed", name, coworker.agentType, 0, <<>>))

\* A variant of restart in which the two maps survive.
restart_keepsMaps(s) ==
    [s EXCEPT !.pc = [p \in Procs |-> "idle"],
              !.coworkers = [p \in Procs |-> <<>>],
              !.sessionId = [p \in Procs |-> 0],
              !.calls = [p \in Procs |-> <<>>],
              !.last = NoLast]

\* The host process ends and starts again: module state is gone, calls in
\* flight are gone with it, the backing store stays.
restart(s) ==
    [s EXCEPT !.activeSessions = EmptyMap,
              !.sessionParents = EmptyMap,
              !.pc = [p \in Procs |-> "idle"],
              !.coworkers = [p \in Procs |-> <<>>],
              !.sessionId = [p \in Procs |-> 0],
              !.calls = [p \in Procs |-> <<>>],
              !.last = NoLast]

(***************************************************************************)
(* Actions.  Both variants take every step; a variant whose call already   *)
(* returned (or that does not register the tool) stays as it is.           *)
(***************************************************************************)
Idle(p) == \A v \in Variants : plugin[v].pc[p] = "idle"

At(p, where) == \E v \in Variants : plugin[v].pc[p] = where

Step(v, p, where, next) ==
    IF plugin[v].pc[p] = where THEN next ELSE resume(plugin[v])

\* args[p] is kept for as long as the call is in flight in some variant.
Settle(p, a) ==
    args' = [args EXCEPT ![p] = IF \A v \in Variants : plugin'[v].pc[p] = "idle"
                                THEN NoArgs ELSE a]

Invoke(p) ==
    /\ Idle(p)
    /\ ops < MaxOps
    /\ ops' = ops + 1

CreateCall(p, name, agent, text) ==
    LET a == Args(p, "create", name, agent, text)
    IN  /\ Invoke(p)
        /\ plugin' = [v \in Variants |-> createStart(v, plugin[v], p, a)]
        /\ Settle(p, a)
        /\ UNCHANGED <<nextSession, now, bootSession>>

CreateSession(p, resp) ==
    /\ At(p, "session")
    /\ plugin' = [v \in Variants |->
                     Step(v, p, "session",
                          createSession(v, plugin[v], p, args[p], resp, nextSession))]
    /\ Settle(p, args[p])
    /\ nextSession' = IF resp = "id" THEN nextSession + 1 ELSE nextSession
    /\ UNCHANGED <<now, ops, bootSession>>

CreatePrompt(p, resp) ==
    /\ At(p, "prompt")
    /\ plugin' = [v \in Variants |->
                     Step(v, p, "prompt", createPrompt(v, plugin[v], p, args[p], resp))]
    /\ Settle(p, args[p])
    /\ UNCHANGED <<nextSession, now, ops, bootSession>>

\* new Date() reads the clock, which may have moved on since it was last read.
CreateSave(p, dt) ==
    /\ At(p, "save")
    /\ now' = now + dt
    /\ plugin' = [v \in Variants |->
                     Step(v, p, "save", createSave(v, plugin[v], p, args[p], now'))]
    /\ UNCHANGED <<args, nextSession, ops, bootSession>>

CreateFinish(p) ==
    /\ At(p, "finish")
    /\ plugin' = [v \in Variants |->
                     Step(v, p, "finish", createFinish(v, plugin[v], p, args[p]))]
    /\ Settle(p, args[p])
    /\ UNCHANGED <<nextSession, now, ops, bootSession>>

ListCall(p) ==
    LET a == Args(p, "list", <<>>, Undefined, <<>>)
    IN  /\ Invoke(p)
        /\ plugin' = [v \in Variants |-> listStart(v, plugin[v], p, a)]
        /\ Settle(p, a)
        /\ UNCHANGED <<nextSession, now, bootSession>>

ListFinish(p) ==
    /\ At(p, "list")
    /\ plugin' = [v \in Variants |->
                     Step(v, p, "list", listFinish(v, plugin[v], p, args[p]))]
    /\ Settle(p, args[p])
    /\ UNCHANGED <<nextSession, now, ops, bootSession>>

\* The /coworkers command, issued in session p.
CommandCall(p) ==
    LET a == Args(p, "command", <<>>, Undefined, <<>>)
    IN  /\ Invoke(p)
        /\ plugin' = [v \in Variants |-> listStart(v, plugin[v], p, a)]
        /\ Settle(p, a)
        /\ UNCHANGED <<nextSession, now, bootSession>>

CommandFinish(p) ==
    /\ At(p, "command")
    /\ plugin' = [v \in Variants |->
                     Step(v, p, "command", commandFinish(v, plugin[v], p, args[p]))]
    /\ Settle(p, args[p])
    /\ UNCHANGED <<nextSession, now, ops, bootSession>>

TellCall(p, name, text) ==
    LET a == Args(p, "tell", name, Undefined, text)
    IN  /\ Invoke(p)
        /\ plugin' = [v \in Variants |-> tellStart(v, plugin[v], p, a)]
        /\ Settle(p, a)
        /\ UNCHANGED <<nextSession, now, bootSession>>

TellPrompt(p, resp) ==
    /\ At(p, "tell")
    /\ plugin' = [v \in Variants |->
                     Step(v, p, "tell", tellPrompt(v, plugin[v], p, args[p], resp))]
    /\ Settle(p, args[p])
    /\ UNCHANGED <<nextSession, now, ops, bootSession>>

\* src/index.ts registers no remove_coworker: only the table variant runs it.
RemoveCall(p, name) ==
    LET a == Args(p, "remove", name, Undefined, <<>>)
    IN  /\ Invoke(p)
        /\ plugin' = [v \in Variants |->
                         IF v = "table" THEN removeStart(v, plugin[v], p, a)
                         ELSE resume(plugin[v])]
        /\ Settle(p, a)
        /\ UNCHANGED <<nextSession, now, bootSession>>

RemoveDelete(p) ==
    /\ At(p, "delete")
    /\ plugin' = [v \in Variants |->
                     Step(v, p, "delete", removeDelete(v, plugin[v], p, args[p]))]
    /\ Settle(p, args[p])
    /\ UNCHANGED <<nextSession, now, ops, bootSession>>

Restart ==
    /\ ops < MaxOps
    /\ ops' = ops + 1
    /\ bootSession' = nextSession
    /\ plugin' = [v \in Variants |-> restart(plugin[v])]
    /\ args' = [p \in Procs |-> NoArgs]
    /\ UNCHANGED <<nextSession, now>>

Next ==
    \/ \E p \in Procs, in \in CreateInputs : CreateCall(p, in[1], in[2], in[3])
    \/ \E p \in Procs, resp \in {"id", "none", "throw"} : CreateSession(p, resp)
    \/ \E p \in Procs, resp \in {"ok", "throw"} : CreatePrompt(p, resp)
    \/ \E p \in Procs, dt \in {0, 1} : CreateSave(p, dt)
    \/ \E p \in Procs : CreateFinish(p)
    \/ \E p \in Procs : ListCall(p)
    \/ \E p \in Procs : ListFinish(p)
    \/ \E p \in Procs : CommandCall(p)
    \/ \E p \in Procs : CommandFinish(p)
    \/ \E p \in Procs, name \in NameInputs, text \in MessageInputs : TellCall(p, name, text)
    \/ \E p \in Procs, resp \in {"ok", "throw"} : TellPrompt(p, resp)
    \/ \E p \in Procs, name \in NameInputs : RemoveCall(p, name)
    \/ \E p \in Procs : RemoveDelete(p)
    \/ Restart

Spec == Init /\ [][Next]_vars

\* The tools that both variants register: create, list, tell.
NextNoRemove ==
    \/ \E p \in Procs, in \in CreateInputs : CreateCall(p, in[1], in[2], in[3])
    \/ \E p \in Procs, resp \in {"id", "none", "throw"} : CreateSession(p, resp)
    \/ \E p \in Procs, resp \in {"ok", "throw"} : CreatePrompt(p, resp)
    \/ \E p \in Procs, dt \in {0, 1} : CreateSave(p, dt)
    \/ \E p \in Procs : CreateFinish(p)
    \/ \E p \in Procs : ListCall(p)
    \/ \E p \in Procs : ListFinish(p)
    \/ \E p \in Procs : CommandCall(p)
    \/ \E p \in Procs : CommandFinish(p)
    \/ \E p \in Procs, name \in NameInputs, text \in MessageInputs : TellCall(p, name, text)
    \/ \E p \in Procs, resp \in {"ok", "throw"} : TellPrompt(p, resp)
    \/ Restart

SpecNoRemove == Init /\ [][NextNoRemove]_vars

SpecPrior == InitPrior /\ [][Next]_vars

(***************************************************************************)
(* The storage layer on its own: saveCoworkers(coworkers) on a store that  *)
(* does not exist yet, then loadCoworkers().  The mapping to save is the   *)
(* local coworkers of session ses_a, the mapping loaded that of ses_b.     *)
(***************************************************************************)
MaxRecords == 2

\* parentId?: string - absent, empty, or a session id.
RecordInputs ==
    {Coworker(1, agentType, 1, parentId) :
        agentType \in {"code", "general"}, parentId \in {Undefined, "", "ses_a"}}

\* The mappings of up to MaxRecords records under distinct lower-case names.
MappingInputs ==
    UNION {{m \in [1..n -> [k : {bob, toLowerCase(Amy)}, v : RecordInputs]] :
              \A i \in 1..n, j \in 1..n : i # j => m[i].k # m[j].k} :
           n \in 0..MaxRecords}

InitRoundTrip ==
    /\ \E m \in MappingInputs :
          plugin = [v \in Variants |->
                       [InitPlugin(v) EXCEPT !.coworkers["ses_a"] = m,
                                             !.pc["ses_a"] = "toSave"]]
    /\ args = [p \in Procs |-> NoArgs]
    /\ nextSession = 1
    /\ now = 1
    /\ ops = 0
    /\ bootSession = 1

RoundTripSave ==
    /\ \A v \in Variants : plugin[v].pc["ses_a"] = "toSave"
    /\ plugin' = [v \in Variants |->
                     [plugin[v] EXCEPT
                         !.storage = saveCoworkers(v, @, plugin[v].coworkers["ses_a"]),
                         !.pc["ses_a"] = "toLoad"]]
    /\ UNCHANGED <<args, nextSession, now, ops, bootSession>>

RoundTripLoad ==
    /\ \A v \in Variants : plugin[v].pc["ses_a"] = "toLoad"
    /\ plugin' = [v \in Variants |->
                     [plugin[v] EXCEPT
                         !.storage = storeAfterLoad(v, @),
                         !.coworkers["ses_b"] = loadCoworkers(v, plugin[v].storage),
                         !.pc["ses_a"] = "done"]]
    /\ UNCHANGED <<args, nextSession, now, ops, bootSession>>

NextRoundTrip == RoundTripSave \/ RoundTripLoad

SpecRoundTrip == InitRoundTrip /\ [][NextRoundTrip]_vars

(***************************************************************************)
(* Notions the properties below are stated with.                           *)
(***************************************************************************)
\* The logical content of the store of variant v: what loadCoworkers reads.
StoreOf(pl, v) == loadCoworkers(v, pl[v].storage)

Store(v) == StoreOf(plugin, v)

\* What a list_coworkers that runs from state pl of variant v, with no
\* other step between its load and its return, prints.
ListOf(pl, v) ==
    LET p == CHOOSE q \in Procs : TRUE
        a == Args(p, "list", <<>>, Undefined, <<>>)
    IN  listFinish(v, listStart(v, pl[v], p, a), p, a).last.result.entries

EntriesFor(list, name) == {i \in 1..Len(list) : list[i].name = name}

\* In this step session p calls tool op in variant v ...
Called(v, p, op) ==
    /\ plugin[v].pc[p] = "idle"
    /\ ops' = ops + 1
    /\ \/ plugin'[v].last.args.proc = p /\ plugin'[v].last.args.op = op
       \/ plugin'[v].pc[p] # "idle" /\ args'[p].op = op

\* ... with these arguments.
CalledArgs(v, p) ==
    IF plugin'[v].last.args.proc = p THEN plugin'[v].last.args ELSE args'[p]

\* The memory of the plugin and its store are the same after the step.
StoreAndTrackerUnchanged(v) ==
    /\ plugin'[v].storage = plugin[v].storage
    /\ plugin'[v].activeSessions = plugin[v].activeSessions
    /\ plugin'[v].sessionParents = plugin[v].sessionParents

(***************************************************************************)
(* C1.  As claimed: names are case-insensitive.  In any state, once a      *)
(* create of a name has returned success and no remove of it followed, a   *)
(* create of a name with the same lower-case form that is called while no  *)
(* other call is in flight returns the AlreadyExists text with the         *)
(* sessionId of the existing record, makes no request to the session       *)
(* service and leaves the store and both maps as they were.                *)
(***************************************************************************)
C1_CreateExistingFails ==
    [][\A v \in Variants, p \in Procs :
          LET a == CalledArgs(v, p)
              name == toLowerCase(a.name)
          IN  ( /\ Called(v, p, "create")
                /\ ~InFlight(plugin[v])
                /\ MapHas(plugin[v].created, name) )
              => /\ plugin'[v].pc[p] = "idle"
                 /\ plugin'[v].last.result.kind = "AlreadyExists"
                 /\ plugin'[v].last.result.name = name
                 /\ HasOwn(Store(v), name)
                 /\ plugin'[v].last.result.sessionId = Get(Store(v), name).sessionId
                 /\ \E c \in plugin[v].created[name] :
                        c.sessionId = plugin'[v].last.result.sessionId
                 /\ plugin'[v].last.calls = <<>>
                 /\ StoreAndTrackerUnchanged(v)
      ]_vars

(***************************************************************************)
(* C2.  A create that runs with no overlapping call and gets identifier s  *)
(* from the session service leaves, on return, a record under the          *)
(* lower-case name with sessionId s, the given agent type (or the          *)
(* variant's default) and parentId the caller's session; both maps hold s; *)
(* and a list run right then shows exactly one entry for the name, with    *)
(* session s and status active.                                            *)
(***************************************************************************)
C2_CreateThenList ==
    \A v \in Variants :
        LET l == plugin[v].last
            name == toLowerCase(l.args.name)
            s == l.result.sessionId
            list == ListOf(plugin, v)
        IN  (l.result.kind = "Created" /\ ~plugin[v].overlapped)
            => /\ l.calls[1].op = "session.create" /\ l.calls[1].id = s
               /\ HasOwn(Store(v), name)
               /\ Get(Store(v), name).sessionId = s
               /\ Get(Store(v), name).agentType =
                      (IF l.args.agent_type # Undefined THEN l.args.agent_type
                       ELSE IF v = "file" THEN "code" ELSE "general")
               /\ Get(Store(v), name).parentId = l.args.proc
               /\ MapHas(plugin[v].activeSessions, s)
               /\ plugin[v].activeSessions[s] = name
               /\ MapHas(plugin[v].sessionParents, s)
               /\ plugin[v].sessionParents[s] = l.args.proc
               /\ Cardinality(EntriesFor(list, name)) = 1
               /\ EntriesFor(list, l.args.name) \subseteq EntriesFor(list, name)
               /\ \A i \in EntriesFor(list, name) :
                      list[i].sessionId = s /\ list[i].status = "active"

\* A create of "Bob" with no agent type has returned success in both
\* variants, with no call ever overlapping another.
C2_Witness ==
    \A v \in Variants :
        /\ plugin[v].last.result.kind = "Created"
        /\ plugin[v].last.args.name = Bob
        /\ plugin[v].last.args.agent_type = Undefined
        /\ ~plugin[v].overlapped

(***************************************************************************)
(* C3.  With no overlapping call: when remove of a name that had a record  *)
(* (the text it returns names the record's agent type) returns success,    *)
(* a list run right then has no entry for the name and a tell of the name  *)
(* returns NotFound; and a create of the name that succeeds afterwards     *)
(* stores the identifier it was newly given, which is not the sessionId    *)
(* of a removed record.                                                    *)
(***************************************************************************)
C3_RemoveThenCreate ==
    \A v \in Variants :
        LET l == plugin[v].last
            name == toLowerCase(l.args.name)
        IN  /\ ( /\ l.result.kind = "Removed"
                 /\ l.result.agentType # Undefined
                 /\ ~plugin[v].overlapped )
               => /\ ~HasOwn(Store(v), name)
                  /\ EntriesFor(ListOf(plugin, v), name) = {}
                  /\ \A p \in Procs, n \in NameInputs, m \in MessageInputs :
                        toLowerCase(n) = name
                        => tellStart(v, plugin[v], p, Args(p, "tell", n, Undefined, m)).last.result
                              = notFound(name)
                  /\ \A p \in Procs, in \in CreateInputs :
                        toLowerCase(in[1]) = name
                        => createStart(v, plugin[v], p,
                                       Args(p, "create", in[1], in[2], in[3])).pc[p] = "session"
            /\ ( /\ l.result.kind = "Created"
                 /\ ~plugin[v].overlapped
                 /\ MapHas(plugin[v].removed, name) )
               => /\ HasOwn(Store(v), name)
                  /\ Get(Store(v), name).sessionId = l.calls[1].id
                  /\ Get(Store(v), name).sessionId \notin plugin[v].removed[name]

\* A name was created, removed and created again, one call after the other.
C3_Witness ==
    \E v \in Variants :
        /\ plugin[v].last.result.kind = "Created"
        /\ ~plugin[v].overlapped
        /\ MapHas(plugin[v].removed, toLowerCase(plugin[v].last.args.name))

(***************************************************************************)
(* C4.  As claimed: in every state, a tell of a name whose lower-case     *)
(* form has no record in the store returns the NotFound text at once and   *)
(* makes no request to the session service.                                *)
(***************************************************************************)
C4_TellUnknown ==
    [][\A v \in Variants, p \in Procs :
          LET a == CalledArgs(v, p)
              name == toLowerCase(a.name)
          IN  (Called(v, p, "tell") /\ ~HasOwn(Store(v), name))
              => /\ plugin'[v].pc[p] = "idle"
                 /\ plugin'[v].last.result = notFound(name)
                 /\ plugin'[v].last.calls = <<>>
                 /\ plugin'[v].calls[p] = <<>>
      ]_vars

(***************************************************************************)
(* C5.  Every call ends by returning text, also when the session service   *)
(* fails a request: the failure comes back as the UpstreamFailure error    *)
(* text, never as an exception.                                            *)
(***************************************************************************)
C5_FailuresReturnText ==
    \A v \in Variants :
        LET l == plugin[v].last
        IN  /\ l.result.kind # "exception"
            /\ (\E i \in 1..Len(l.calls) : l.calls[i].outcome \in {"none", "throw"})
               => l.result.kind = "UpstreamFailure"

(***************************************************************************)
(* C6.  As claimed: in every execution, when create returns success the    *)
(* record of the name, with the session just created, is in the store.     *)
(***************************************************************************)
C6_StoredAtReturn ==
    \A v \in Variants :
        LET l == plugin[v].last
            name == toLowerCase(l.args.name)
        IN  l.result.kind = "Created"
            => /\ HasOwn(Store(v), name)
               /\ Get(Store(v), name).sessionId = l.result.sessionId

(***************************************************************************)
(* C6, amended.  When no calls overlap, persistence precedes the success   *)
(* report: a create that is about to register its session and return      *)
(* success has its record in the store, and the record of every create     *)
(* that returned success is in the store from then on, across restarts of  *)
(* the process, until the name is removed.                                 *)
(***************************************************************************)
C6_PersistedBeforeSuccess ==
    \A v \in Variants :
        ~plugin[v].overlapped
        => /\ \A p \in Procs :
                plugin[v].pc[p] = "finish"
                => /\ HasOwn(Store(v), toLowerCase(args[p].name))
                   /\ Get(Store(v), toLowerCase(args[p].name)).sessionId
                         = plugin[v].sessionId[p]
           /\ \A name \in DOMAIN plugin[v].created :
                /\ HasOwn(Store(v), name)
                /\ \E c \in plugin[v].created[name] :
                       c.sessionId = Get(Store(v), name).sessionId

\* The process was restarted after a create had returned success.
C6_Witness ==
    \E v \in Variants :
        /\ ~plugin[v].overlapped
        /\ \E name \in DOMAIN plugin[v].created :
              \E c \in plugin[v].created[name] : c.sessionId < bootSession

(***************************************************************************)
(* C7.  As claimed (second half): once create has been called again, in    *)
(* the new process, for the name of a coworker that was reloaded from the  *)
(* store, list reports that coworker as active.                            *)
(***************************************************************************)
C7_ActiveAfterCreateAgain ==
    \A v \in Variants :
        LET l == plugin[v].last
            name == toLowerCase(l.args.name)
            list == ListOf(plugin, v)
        IN  ( /\ l.args.op = "create"
              /\ HasOwn(Store(v), name)
              /\ Get(Store(v), name).sessionId < bootSession )
            => \A i \in EntriesFor(list, name) : list[i].status = "active"

(***************************************************************************)
(* C7, amended.  After a restart, list reports every coworker whose        *)
(* record was made before the restart as idle, for as long as that record  *)
(* is in the store: a create called for its name in the new process        *)
(* returns AlreadyExists and registers nothing.                            *)
(***************************************************************************)
C7_ReloadedStayIdle ==
    /\ [](\A v \in Variants :
            LET list == ListOf(plugin, v)
                returned == plugin[v].last.result.entries
            IN  /\ \A i \in 1..Len(list) :
                      list[i].sessionId < bootSession => list[i].status = "idle"
                /\ \A i \in 1..Len(returned) :
                      returned[i].sessionId < bootSession => returned[i].status = "idle")
    /\ [][\A v \in Variants, p \in Procs :
            LET name == toLowerCase(CalledArgs(v, p).name)
            IN  ( /\ Called(v, p, "create")
                  /\ HasOwn(Store(v), name)
                  /\ Get(Store(v), name).sessionId < bootSession )
                => /\ plugin'[v].last.result =
                         alreadyExists(name, Get(Store(v), name))
                   /\ StoreAndTrackerUnchanged(v)
                   /\ \A i \in EntriesFor(ListOf(plugin', v), name) :
                         ListOf(plugin', v)[i].status = "idle"
        ]_vars

\* After a restart, a create for a reloaded coworker's name has returned.
C7_Witness ==
    \E v \in Variants :
        /\ plugin[v].last.args.op = "create"
        /\ plugin[v].last.result.kind = "AlreadyExists"
        /\ plugin[v].last.result.sessionId < bootSession
        /\ EntriesFor(ListOf(plugin, v), toLowerCase(plugin[v].last.args.name)) # {}

(***************************************************************************)
(* C8.  The create/create race.  A create saves without looking at the     *)
(* store again: whatever the store holds under the name by then, after the *)
(* save it holds exactly the saver's record under it, and the create goes  *)
(* on to return success.  (That two creates of one name can both get that  *)
(* far is the witness.)                                                    *)
(***************************************************************************)
C8_LaterSaveOverwrites ==
    [][\A v \in Variants, p \in Procs :
          LET name == toLowerCase(args[p].name)
              after == StoreOf(plugin', v)
          IN  /\ (plugin[v].pc[p] = "save" /\ plugin'[v].pc[p] = "finish")
                 => /\ Cardinality({i \in 1..Len(after) : after[i].k = name}) = 1
                    /\ Get(after, name).sessionId = plugin[v].sessionId[p]
                    /\ Get(after, name).createdAt = now'
                    /\ Get(after, name).parentId = p
              /\ (plugin[v].pc[p] = "finish" /\ plugin'[v].last.args.proc = p)
                 => /\ plugin'[v].last.result.kind = "Created"
                    /\ plugin'[v].last.result.sessionId = plugin[v].sessionId[p]
      ]_vars

\* Two creates of one name have both passed the check, both got a session
\* and both saved; the store holds the record of the one that saved last,
\* and no record of the other's session.
C8_Witness ==
    \E v \in Variants, p \in Procs, q \in Procs :
        LET name == toLowerCase(args[p].name)
        IN  /\ p # q
            /\ plugin[v].pc[p] = "finish"
            /\ plugin[v].pc[q] = "finish"
            /\ toLowerCase(args[q].name) = name
            /\ plugin[v].sessionId[p] # plugin[v].sessionId[q]
            /\ Get(Store(v), name).sessionId = plugin[v].sessionId[q]
            /\ \A i \in 1..Len(Store(v)) :
                  Store(v)[i].v.sessionId # plugin[v].sessionId[p]

(***************************************************************************)
(* C9.  As claimed: over create, list and tell, the file-backed and the    *)
(* table-backed variant, given the same calls and the same answers of the  *)
(* session service, return the same results, make the same requests and,   *)
(* when no call is in flight, hold the same logical store content.         *)
(***************************************************************************)
C9_VariantsAgree ==
    /\ plugin["file"].last = plugin["table"].last
    /\ plugin["file"].pc = plugin["table"].pc
    /\ plugin["file"].calls = plugin["table"].calls
    /\ (\A p \in Procs : Idle(p)) => Store("file") = Store("table")

(***************************************************************************)
(* C10.  As claimed: in every interleaving, a record that is in the store  *)
(* before and after a step has the same sessionId, createdAt and parentId  *)
(* before and after.                                                       *)
(***************************************************************************)
FieldsKept(v) ==
    \A i \in 1..Len(Store(v)) :
        LET name == Store(v)[i].k
            before == Store(v)[i].v
            after == StoreOf(plugin', v)
        IN  HasOwn(after, name)
            => /\ Get(after, name).sessionId = before.sessionId
               /\ Get(after, name).createdAt = before.createdAt
               /\ Get(after, name).parentId = before.parentId

C10_WriteOnce == [][\A v \in Variants : FieldsKept(v)]_vars

(***************************************************************************)
(* C10, amended.  As long as no calls overlap, a record that is in the     *)
(* store before and after a step has the same sessionId, createdAt and     *)
(* parentId before and after.                                              *)
(***************************************************************************)
C10_WriteOnceSequential ==
    [][\A v \in Variants : ~plugin'[v].overlapped => FieldsKept(v)]_vars

\* A second coworker was created, sequentially, beside an existing record.
C10_Witness ==
    \E v \in Variants :
        /\ ~plugin[v].overlapped
        /\ plugin[v].last.result.kind = "Created"
        /\ Len(Store(v)) = 2

(***************************************************************************)
(* C11.  As claimed: whatever the backing store held when the plugin       *)
(* started, a key that is not lower case included, once a remove of a      *)
(* name has returned success a load of the store yields no record under    *)
(* the lower-case form of that name.                                       *)
(***************************************************************************)
C11_RemovedKeyGone ==
    \A v \in Variants :
        LET l == plugin[v].last
        IN  (l.args.op = "remove" /\ l.result.kind = "Removed")
            => ~HasOwn(Store(v), toLowerCase(l.args.name))

(***************************************************************************)
(* C12.  As claimed: a load never fails.  No call ends with an exception   *)
(* before it has made a request to the session service, and a list on a    *)
(* backing store that is missing or corrupt reports an empty registry, in  *)
(* both variants.                                                          *)
(***************************************************************************)
C12_LoadNeverFails ==
    \A v \in Variants :
        LET l == plugin[v].last
        IN  /\ l.result.kind = "exception" => l.calls # <<>>
            /\ (l.args.op = "list" /\ plugin[v].storage.status # "ok")
               => l.result.kind = "NoCoworkers"

(***************************************************************************)
(* C13.  As claimed: in both variants, saving a mapping of records under   *)
(* lower-case names, whatever their field values (parentId absent or       *)
(* empty included), and loading the store gives back the same keys with    *)
(* the same sessionId, agentType, createdAt and parentId.                  *)
(***************************************************************************)
C13_RoundTrip ==
    \A v \in Variants :
        plugin[v].pc["ses_a"] = "done"
        => LET saved == plugin[v].coworkers["ses_a"]
               loaded == plugin[v].coworkers["ses_b"]
           IN  /\ Keys(loaded) = Keys(saved)
               /\ \A k \in Keys(saved) : Get(loaded, k) = Get(saved, k)

(***************************************************************************)
(* C14.  tell on an existing coworker: the step that finds the record and  *)
(* the step in which the prompt is answered both leave the store and the   *)
(* two maps as they were, and the call makes exactly one request, a        *)
(* prompt whose text is the message unchanged, to the sessionId of the     *)
(* record loaded for the lower-case name (which, when no calls overlap,    *)
(* is the record in the store).                                            *)
(***************************************************************************)
C14_TellForwardsOnly ==
    [][\A v \in Variants, p \in Procs :
          LET name == toLowerCase(args[p].name)
              l == plugin'[v].last
          IN  /\ (Called(v, p, "tell") /\ HasOwn(Store(v), toLowerCase(args'[p].name)))
                 => /\ StoreAndTrackerUnchanged(v)
                    /\ plugin'[v].pc[p] = "tell"
                    /\ plugin'[v].coworkers[p] = Store(v)
                    /\ plugin'[v].calls[p] = <<>>
              /\ ( /\ plugin[v].pc[p] = "tell"
                    /\ l.args.proc = p
                    /\ HasOwn(plugin[v].coworkers[p], name) )
                 => /\ StoreAndTrackerUnchanged(v)
                    /\ l.result.kind \in {"Queued", "exception"}
                    /\ Len(l.calls) = 1
                    /\ l.calls[1].op = "session.prompt"
                    /\ l.calls[1].text = args[p].text
                    /\ l.calls[1].id = Get(plugin[v].coworkers[p], name).sessionId
                    /\ ~plugin[v].overlapped
                       => /\ HasOwn(Store(v), name)
                          /\ l.calls[1].id = Get(Store(v), name).sessionId
      ]_vars

\* A tell of an existing coworker has just returned.
C14_Witness ==
    \E v \in Variants :
        LET l == plugin[v].last
        IN  /\ l.args.op = "tell"
            /\ l.result.kind = "Queued"
            /\ l.calls # <<>>
            /\ HasOwn(Store(v), toLowerCase(l.args.name))

(***************************************************************************)
(* C15.  As claimed: remove.  The step that deletes takes the record of   *)
(* the lower-case name out of the store and the entries of the loaded      *)
(* record's sessionId out of both maps, keeps every other record and       *)
(* every other map entry, and returns Removed without a request to the     *)
(* session service; the step that loads changes neither the records nor    *)
(* the maps, and exactly when there is no record under the name it         *)
(* returns NotFound.                                                       *)
(***************************************************************************)
C15_RemoveDeletesOnlyThat ==
    [][\A v \in Variants, p \in Procs :
          LET l == plugin'[v].last
              before == Store(v)
              after == StoreOf(plugin', v)
          IN  /\ Called(v, p, "remove")
                 => LET name == toLowerCase(CalledArgs(v, p).name)
                    IN  /\ after = before
                        /\ plugin'[v].activeSessions = plugin[v].activeSessions
                        /\ plugin'[v].sessionParents = plugin[v].sessionParents
                        /\ plugin'[v].calls[p] = <<>>
                        /\ (l.args.proc = p) <=> ~HasOwn(before, name)
                        /\ (l.args.proc = p)
                           => l.result = notFound(name) /\ l.calls = <<>>
              /\ (plugin[v].pc[p] = "delete" /\ l.args.proc = p)
                 => LET name == toLowerCase(args[p].name)
                        sessionId == Get(plugin[v].coworkers[p], name).sessionId
                    IN  /\ l.result.kind = "Removed"
                        /\ l.calls = <<>>
                        /\ Keys(after) = Keys(before) \ {name}
                        /\ \A k \in Keys(after) : Get(after, k) = Get(before, k)
                        /\ DOMAIN plugin'[v].activeSessions
                              = DOMAIN plugin[v].activeSessions \ {sessionId}
                        /\ \A x \in DOMAIN plugin'[v].activeSessions :
                              plugin'[v].activeSessions[x] = plugin[v].activeSessions[x]
                        /\ DOMAIN plugin'[v].sessionParents
                              = DOMAIN plugin[v].sessionParents \ {sessionId}
                        /\ \A x \in DOMAIN plugin'[v].sessionParents :
                              plugin'[v].sessionParents[x] = plugin[v].sessionParents[x]
                        /\ ~plugin[v].overlapped
                           => /\ HasOwn(before, name)
                              /\ Get(before, name).sessionId = sessionId
      ]_vars

(***************************************************************************)
(* C16.  As claimed: a create that returns success has made exactly two    *)
(* requests, the creation of the session and then one prompt to that       *)
(* session; the text of the prompt is the identity preamble with the name  *)
(* as given followed by the caller's prompt, and its agent is the          *)
(* agentType of the record.  While the record is not yet saved the prompt  *)
(* has already been sent.                                                  *)
(***************************************************************************)
C16_InitialPrompt ==
    \A v \in Variants :
        LET l == plugin[v].last
        IN  /\ l.result.kind = "Created"
               => /\ Len(l.calls) = 2
                  /\ l.calls[1].op = "session.create"
                  /\ l.calls[2].op = "session.prompt"
                  /\ l.calls[2].id = l.result.sessionId
                  /\ l.calls[2].agent = l.result.agentType
                  /\ l.calls[2].text =
                        <<"IMPORTANT: your name is '">> \o l.args.name
                        \o <<"'. ">> \o l.args.text
            /\ \A p \in Procs :
                  plugin[v].pc[p] = "save"
                  => /\ Len(plugin[v].calls[p]) = 2
                     /\ plugin[v].calls[p][2].op = "session.prompt"

(***************************************************************************)
(* C17.  When the session service answers the creation of the session      *)
(* without an identifier, the create returns the UpstreamFailure text in   *)
(* that very step: the call has made that one request and no prompt, and   *)
(* neither this step nor the load step before it changes the records of    *)
(* the store or the two maps.  No create goes on after such an answer.     *)
(***************************************************************************)
C17_NoSessionNoEffect ==
    [][\A v \in Variants, p \in Procs :
          LET l == plugin'[v].last
              inFlight == plugin'[v].calls[p]
          IN  /\ Called(v, p, "create")
                 => /\ StoreOf(plugin', v) = Store(v)
                    /\ plugin'[v].activeSessions = plugin[v].activeSessions
                    /\ plugin'[v].sessionParents = plugin[v].sessionParents
                    /\ inFlight = <<>>
              /\ \A i \in 1..Len(inFlight) : inFlight[i].outcome \notin {"none"}
              /\ ( /\ plugin[v].pc[p] = "session"
                    /\ l.args.proc = p
                    /\ l.calls # <<>>
                    /\ l.calls[Len(l.calls)].outcome = "none" )
                 => /\ l.result.kind = "UpstreamFailure"
                    /\ Len(l.calls) = 1
                    /\ l.calls[1].op = "session.create"
                    /\ StoreAndTrackerUnchanged(v)
      ]_vars

\* A create has just returned UpstreamFailure beside an existing coworker.
C17_Witness ==
    \E v \in Variants :
        LET l == plugin[v].last
        IN  /\ l.args.op = "create"
            /\ l.result.kind = "UpstreamFailure"
            /\ l.calls # <<>>
            /\ l.calls[1].outcome = "none"
            /\ Len(Store(v)) >= 1
            /\ DOMAIN plugin[v].activeSessions # {}

(***************************************************************************)
(* C18.  As claimed: in every state in which no call is in flight, also    *)
(* after calls that overlapped, every entry sessionId -> name of           *)
(* activeSessions has a record under that name with that sessionId in the  *)
(* store.                                                                  *)
(***************************************************************************)
TrackerMatchesStore(v) ==
    \A sessionId \in DOMAIN plugin[v].activeSessions :
        LET name == plugin[v].activeSessions[sessionId]
        IN  /\ HasOwn(Store(v), name)
            /\ Get(Store(v), name).sessionId = sessionId

C18_TrackerMatchesStore ==
    \A v \in Variants :
        (\A p \in Procs : plugin[v].pc[p] = "idle") => TrackerMatchesStore(v)

(***************************************************************************)
(* C18, amended.  As long as no calls have overlapped, every entry         *)
(* sessionId -> name of activeSessions has a record under that name with   *)
(* that sessionId in the store, and sessionParents has the same keys.      *)
(***************************************************************************)
C18_TrackerMatchesStoreSequential ==
    \A v \in Variants :
        ~plugin[v].overlapped
        => /\ TrackerMatchesStore(v)
           /\ DOMAIN plugin[v].sessionParents = DOMAIN plugin[v].activeSessions

\* Two coworkers are registered and no calls have overlapped.
C18_Witness ==
    \E v \in Variants :
        /\ ~plugin[v].overlapped
        /\ \A p \in Procs : plugin[v].pc[p] = "idle"
        /\ Cardinality(DOMAIN plugin[v].activeSessions) = 2

(***************************************************************************)
(* C19.  As claimed: creates of different names do not interfere.  When    *)
(* nothing was removed and two different names have each been created by  *)
(* exactly one create that returned success, overlapping or not, the store *)
(* holds both records, each with the sessionId its create reported.        *)
(***************************************************************************)
C19_BothRecordsStored ==
    \A v \in Variants :
        \A n1 \in DOMAIN plugin[v].created, n2 \in DOMAIN plugin[v].created :
            ( /\ n1 # n2
              /\ plugin[v].removed = EmptyMap
              /\ Cardinality(plugin[v].created[n1]) = 1
              /\ Cardinality(plugin[v].created[n2]) = 1 )
            => \A n \in {n1, n2} :
                  /\ HasOwn(Store(v), n)
                  /\ \E c \in plugin[v].created[n] :
                        c.sessionId = Get(Store(v), n).sessionId

(***************************************************************************)
(* C20.  As claimed: a removed record stays removed.  Whatever the store   *)
(* holds under a name after a remove of it returned success is not a       *)
(* record that a remove of that name took out: it has another sessionId,   *)
(* that of a later create.                                                 *)
(***************************************************************************)
C20_RemovedStaysRemoved ==
    \A v \in Variants :
        \A name \in DOMAIN plugin[v].removed :
            HasOwn(Store(v), name)
            => Get(Store(v), name).sessionId \notin plugin[v].removed[name]
====
